---- MODULE Spec2Model ----
(***************************************************************************)
(* A model of pzflow's Flow (src/pzflow/normalizing_flow.py): construction *)
(* and restoration, save, the transform primitives, log_prob, the grid     *)
(* posterior and the training loop.                                        *)
(*                                                                         *)
(* Floating point values are extended rationals <<kind, num, den>>: a      *)
(* finite rational, the two infinities, NaN, and the largest and the most  *)
(* negative finite float, which numpy's nan_to_num substitutes for the     *)
(* infinities.  Rounding is not modelled; exp is modelled in base 2.       *)
(***************************************************************************)
EXTENDS Integers, Sequences, FiniteSets, TLC

VARIABLES
    flows,     \* the Flow objects of the program, by slot
    files,     \* the file system: the pickled bundle under each file name
    saved,     \* history: the Flow that wrote each file, as it was at save
    tr,        \* the frame of the running train call
    last,      \* the last call: its arguments and its outcome
    pending    \* the call a single-call run is about to make

vars == <<flows, files, saved, tr, last, pending>>

(***************************************************************************)
(* Bounds of the model.                                                    *)
(***************************************************************************)
MaxDim == 2
MaxRows == 2
MaxGrid == 2
MaxEpochs == 2
MaxBatch == 2
MaxTrainRows == 3

\* The values batches and grids are built from, and the parameter values.
DataVals == {0, 1, 2}
ParamVals == {0, 1}

(***************************************************************************)
(* Extended rational arithmetic (IEEE 754 special values, no rounding).    *)
(***************************************************************************)
NaN == <<"nan", 0, 1>>
PosInf == <<"inf", 0, 1>>
NegInf == <<"ninf", 0, 1>>
MaxF == <<"max", 0, 1>>
MinF == <<"min", 0, 1>>

Abs(n) == IF n < 0 THEN -n ELSE n

RECURSIVE GCD(_, _)
GCD(a, b) == IF b = 0 THEN a ELSE GCD(b, a % b)

Fin(n, d) ==
    LET g == GCD(Abs(n), d)
    IN  IF n = 0 THEN <<"fin", 0, 1>> ELSE <<"fin", n \div g, d \div g>>

Zero == Fin(0, 1)
One == Fin(1, 1)

IsFin(a) == a[1] = "fin"
IsNaN(a) == a[1] = "nan"
IsInf(a) == a[1] \in {"inf", "ninf"}

\* -1, 0 or 1 for a value that is not NaN.
Sign(a) ==
    IF a[1] = "inf" THEN 1
    ELSE IF a[1] = "ninf" THEN -1
    ELSE IF a[2] > 0 THEN 1 ELSE IF a[2] < 0 THEN -1 ELSE 0

Signed(s) == IF s > 0 THEN PosInf ELSE NegInf

FNeg(a) ==
    IF IsNaN(a) THEN NaN
    ELSE IF a[1] = "inf" THEN NegInf
    ELSE IF a[1] = "ninf" THEN PosInf
    ELSE Fin(-a[2], a[3])

FAdd(a, b) ==
    IF IsNaN(a) \/ IsNaN(b) THEN NaN
    ELSE IF IsInf(a) THEN (IF IsInf(b) /\ b # a THEN NaN ELSE a)
    ELSE IF IsInf(b) THEN b
    ELSE Fin(a[2] * b[3] + b[2] * a[3], a[3] * b[3])

FMul(a, b) ==
    IF IsNaN(a) \/ IsNaN(b) THEN NaN
    ELSE IF IsInf(a) \/ IsInf(b)
         THEN (IF Sign(a) * Sign(b) = 0 THEN NaN ELSE Signed(Sign(a) * Sign(b)))
    ELSE Fin(a[2] * b[2], a[3] * b[3])

FDiv(a, b) ==
    IF IsNaN(a) \/ IsNaN(b) THEN NaN
    ELSE IF IsInf(b) THEN (IF IsInf(a) THEN NaN ELSE Zero)
    ELSE IF Sign(b) = 0 THEN (IF Sign(a) = 0 THEN NaN ELSE Signed(Sign(a)))
    ELSE IF IsInf(a) THEN Signed(Sign(a) * Sign(b))
    ELSE IF b[2] > 0 THEN Fin(a[2] * b[3], a[3] * b[2])
    ELSE Fin(-(a[2] * b[3]), a[3] * (-b[2]))

RECURSIVE Pow2(_)
Pow2(n) == IF n = 0 THEN 1 ELSE 2 * Pow2(n - 1)

\* np.exp, in base 2, of an integer-valued log-density.
FExp(a) ==
    IF IsNaN(a) THEN NaN
    ELSE IF a[1] \in {"inf", "max"} THEN PosInf
    ELSE IF a[1] \in {"ninf", "min"} THEN Zero
    ELSE IF a[2] >= 0 THEN Fin(Pow2(a[2]), 1) ELSE Fin(1, Pow2(-a[2]))

RECURSIVE FSum(_)
FSum(s) == IF Len(s) = 0 THEN Zero ELSE FAdd(FSum(SubSeq(s, 1, Len(s) - 1)), s[Len(s)])

\* np.mean over a vector: the sum divided by the count (NaN when empty).
FMean(s) == FDiv(FSum(s), Fin(Len(s), 1))

\* np.nan_to_num(x, nan=v): NaN becomes v, and with posinf and neginf left
\* at their defaults the infinities become the largest and the most
\* negative finite float.
NanToNum(x, v) ==
    IF IsNaN(x) THEN v
    ELSE IF x[1] = "inf" THEN MaxF
    ELSE IF x[1] = "ninf" THEN MinF
    ELSE x

(***************************************************************************)
(* The collaborators Flow imports: pzflow.bijectors, pzflow.utils.Normal   *)
(* and the optimizer.  Each follows the protocol Flow relies on            *)
(* (factory(key, dim) -> (params, forward, inverse); forward and inverse   *)
(* take (params, batch) and return (batch', log_det); prior.log_prob and   *)
(* prior.sample; opt_init, opt_update, get_params) on small integer data.  *)
(***************************************************************************)
None == "None"

DefaultBijector(d) == <<"RollingSplineCoupling", d>>
UserBijector == <<"UserBijector", 0>>

\* The spline transform is defined on [-SplineRange, SplineRange] only.
SplineRange == 1

InitParams(bij) == IF bij[1] = "RollingSplineCoupling" THEN 0 ELSE 1

\* bijector(random.PRNGKey(0), input_dim): the initial parameters and the
\* two closures, which depend on the bijector and the dimension alone.
BijectorCall(bij, d) ==
    [params |-> InitParams(bij),
     forward_fun |-> [kind |-> "forward", bij |-> bij, dim |-> d],
     inverse_fun |-> [kind |-> "inverse", bij |-> bij, dim |-> d]]

InSupport(x) == \A i \in 1..Len(x) : Abs(x[i]) <= SplineRange

\* inverse_fun(params, batch) on one row: the latent row and log_det.
InverseRow(fun, params, x) ==
    IF fun.bij[1] = "RollingSplineCoupling"
    THEN IF InSupport(x)
         THEN [u |-> [i \in 1..Len(x) |-> Fin(x[i] - params, 1)], log_det |-> Zero]
         ELSE [u |-> [i \in 1..Len(x) |-> NaN], log_det |-> NaN]
    ELSE [u |-> [i \in 1..Len(x) |-> Fin(x[i] - params, 1)],
          log_det |-> CASE x[1] = 0 -> Fin(-1, 1)
                        [] x[1] = 1 -> PosInf
                        [] OTHER -> NegInf]

\* forward_fun(params, batch) on one row.
ForwardRow(fun, params, u) == [i \in 1..Len(u) |-> u[i] + params]

\* Both closures reject a batch whose width is not the dimension.
ShapeOK(fun, batch) == \A r \in 1..Len(batch) : Len(batch[r]) = fun.dim

Normal(d) == [dist |-> "Normal", dim |-> d]

\* prior.log_prob on one latent row (a standard normal up to its constant).
PriorLogProb(u) == FNeg(FSum([i \in 1..Len(u) |-> FMul(u[i], u[i])]))

\* prior.sample(nsamples, seed): a fixed batch for each (nsamples, seed).
PriorSample(prior, n, seed) ==
    [r \in 1..n |-> [i \in 1..prior.dim |-> (seed + r) % 2]]

\* grad(loss)(params, x) for the collaborators above, as its sign.
Grad(fun, params, batch) ==
    LET row(r) == FSum([i \in 1..Len(batch[r]) |-> Fin(params - batch[r][i], 1)])
        g == FSum([r \in 1..Len(batch) |-> row(r)])
    IN  Sign(g)

Clamp(p) == IF p \in ParamVals THEN p ELSE IF p < 0 THEN 0 ELSE 1

OptInit(params) == [x |-> params, t |-> 0]
OptUpdate(i, g, state) == [x |-> Clamp(state.x - g), t |-> i + 1]
GetParams(state) == state.x

(***************************************************************************)
(* Array helpers (jax.numpy) used by posterior.                            *)
(***************************************************************************)
\* Variant: the rows tiled (the whole batch k times over), not repeated.
RepeatTiled(m, k) == [j \in 1..(Len(m) * k) |-> m[((j - 1) % Len(m)) + 1]]

\* np.repeat(m, k, axis=0): every row k times in a row.
Repeat(m, k) == [j \in 1..(Len(m) * k) |-> m[((j - 1) \div k) + 1]]

\* np.tile(v, n): the whole vector n times over.
Tile(v, n) == [j \in 1..(Len(v) * n) |-> v[((j - 1) % Len(v)) + 1]]

Min(a, b) == IF a < b THEN a ELSE b

\* m[:, :c] and m[:, c:] for c >= 0.
ColsBefore(m, c) == [r \in 1..Len(m) |-> SubSeq(m[r], 1, Min(c, Len(m[r])))]
ColsFrom(m, c) == [r \in 1..Len(m) |-> SubSeq(m[r], c + 1, Len(m[r]))]

\* v[:, None]
AsColumn(v) == [j \in 1..Len(v) |-> <<v[j]>>]

\* np.hstack((a, b, c)) of three blocks with the same number of rows.
HStack(a, b, c) == [r \in 1..Len(a) |-> a[r] \o b[r] \o c[r]]

\* ops.index_update(m, ops.index[:, c], v)
IndexUpdate(m, c, v) == [r \in 1..Len(m) |-> [m[r] EXCEPT ![c + 1] = v[r]]]

\* flat.reshape((n, g))
Reshape(flat, n, g) == [r \in 1..n |-> [k \in 1..g |-> flat[(r - 1) * g + k]]]

\* np.trapz(y=y, x=x) on one row: sum(diff(x) * (y[1:] + y[:-1]) / 2).
Trapz(y, x) ==
    FSum([k \in 1..(Len(x) - 1) |->
            FDiv(FMul(Fin(x[k + 1] - x[k], 1), FAdd(y[k + 1], y[k])), Fin(2, 1))])

(***************************************************************************)
(* Flow: the pure parts of its methods.                                    *)
(***************************************************************************)
NoBijector == <<None, 0>>
NoFun == [kind |-> None, bij |-> NoBijector, dim |-> 0]

NoFlow ==
    [alive |-> FALSE, input_dim |-> 0, info |-> None, bijector |-> NoBijector,
     params |-> 0, forward |-> NoFun, inverse |-> NoFun, prior |-> Normal(0)]

\* Flow.log_prob: nan_to_num(prior.log_prob(u) + log_det, nan=-inf) per row.
RawLogProb(fun, params, x) ==
    LET inv == InverseRow(fun, params, x)
    IN  FAdd(PriorLogProb(inv.u), inv.log_det)

LogProbRow(fun, params, x) == NanToNum(RawLogProb(fun, params, x), NegInf)

LogProbFn(flow, batch) ==
    IF ~ShapeOK(flow.inverse, batch)
    THEN [raised |-> "ShapeError", value |-> <<>>]
    ELSE [raised |-> None,
          value |-> [r \in 1..Len(batch) |-> LogProbRow(flow.inverse, flow.params, batch[r])]]

\* The loss closure of Flow.train: -mean(prior.log_prob(u) + log_det).
Loss(fun, params, batch) ==
    FNeg(FMean([r \in 1..Len(batch) |-> RawLogProb(fun, params, batch[r])]))

\* Variant: the chain without its last test, of the column's type.
PosteriorErrorNoColumnTest(d, ncols, column, mode) ==
    IF mode \notin {"auto", "insert", "replace"} THEN "ValueError"
    ELSE IF mode = "insert" /\ ncols # d - 1 THEN "ValueError"
    ELSE IF mode = "replace" /\ ncols # d THEN "ValueError"
    ELSE IF ncols \notin {d, d - 1} THEN "ValueError"
    ELSE None

\* Flow.posterior: the validation chain; the message-less error, or None.
PosteriorError(d, ncols, column, mode) ==
    IF mode \notin {"auto", "insert", "replace"} THEN "ValueError"
    ELSE IF mode = "insert" /\ ncols # d - 1 THEN "ValueError"
    ELSE IF mode = "replace" /\ ncols # d THEN "ValueError"
    ELSE IF ncols \notin {d, d - 1} THEN "ValueError"
    ELSE IF column[1] # "int" THEN "ValueError"
    ELSE None

\* Variant: the two branches of auto swapped.
ResolveModeSwapped(d, ncols, mode) ==
    IF mode = "auto"
    THEN IF ncols = d - 1 THEN "replace"
         ELSE IF ncols = d THEN "insert"
         ELSE mode
    ELSE mode

\* Flow.posterior: what mode="auto" becomes.
ResolveMode(d, ncols, mode) ==
    IF mode = "auto"
    THEN IF ncols = d - 1 THEN "insert"
         ELSE IF ncols = d THEN "replace"
         ELSE mode
    ELSE mode

\* Flow.posterior: the batch handed to log_prob.
Expand(inputs, grid, c, mode) ==
    LET nrows == Len(inputs)
        G == Len(grid)
    IN  IF mode = "insert"
        THEN HStack(Repeat(ColsBefore(inputs, c), G),
                    AsColumn(Tile(grid, nrows)),
                    Repeat(ColsFrom(inputs, c), G))
        ELSE IF mode = "replace"
        THEN IndexUpdate(Repeat(inputs, G), c, Tile(grid, nrows))
        ELSE inputs

\* Variant: every row divided by the first row's integral (the integrals
\* not reshaped into a column).
NormalizeByFirstRow(logp, grid) ==
    LET area == Trapz([k \in 1..Len(grid) |-> FExp(logp[1][k])], grid)
    IN  [r \in 1..Len(logp) |->
            [k \in 1..Len(grid) |-> NanToNum(FDiv(FExp(logp[r][k]), area), Zero)]]

\* Flow.posterior: exp, the division of each row by its trapezoid
\* integral, and nan_to_num(nan=0).
Normalize(logp, grid) ==
    [r \in 1..Len(logp) |->
        LET pdfs == [k \in 1..Len(grid) |-> FExp(logp[r][k])]
            area == Trapz(pdfs, grid)
        IN  [k \in 1..Len(grid) |-> NanToNum(FDiv(pdfs[k], area), Zero)]]

PosteriorFn(flow, inputs, grid, column, mode) ==
    LET nrows == Len(inputs)
        ncols == Len(inputs[1])
        rejected == [raised |-> "ValueError", mode |-> mode, expanded |-> <<>>,
                     lp_called |-> FALSE, value |-> <<>>]
    IN  IF PosteriorError(flow.input_dim, ncols, column, mode) # None THEN rejected
        ELSE LET m == ResolveMode(flow.input_dim, ncols, mode)
                 expanded == Expand(inputs, grid, column[2], m)
                 lp == LogProbFn(flow, expanded)
             IN  IF lp.raised # None
                 THEN [raised |-> lp.raised, mode |-> m, expanded |-> expanded,
                       lp_called |-> TRUE, value |-> <<>>]
                 ELSE [raised |-> None, mode |-> m, expanded |-> expanded,
                       lp_called |-> TRUE,
                       value |-> Normalize(Reshape(lp.value, nrows, Len(grid)), grid)]

(***************************************************************************)
(* Persistence: dill writes the four-key dictionary as a list of           *)
(* (key, value) items; loading looks each key up again.                    *)
(***************************************************************************)
NoFile == <<>>

SaveDict(flow) ==
    [input_dim |-> flow.input_dim, info |-> flow.info,
     bijector |-> flow.bijector, params |-> flow.params]

DillDump(d) ==
    << <<"input_dim", d.input_dim>>, <<"info", d.info>>,
       <<"bijector", d.bijector>>, <<"params", d.params>> >>

Item(bytes, key) == bytes[CHOOSE k \in 1..Len(bytes) : bytes[k][1] = key][2]

DillLoad(bytes) ==
    [input_dim |-> Item(bytes, "input_dim"), info |-> Item(bytes, "info"),
     bijector |-> Item(bytes, "bijector"), params |-> Item(bytes, "params")]

(***************************************************************************)
(* Flow.__init__                                                           *)
(***************************************************************************)
\* Variant: the test lets 0 through (>= for >).
IsNonNegativeInt(input_dim) == input_dim[1] = "int" /\ input_dim[2] >= 0

\* isinstance(input_dim, int) and input_dim > 0
IsPositiveInt(input_dim) == input_dim[1] = "int" /\ input_dim[2] > 0

\* Variant: the restored Flow keeps the factory's initial parameters.
RestoredParamsFromFactory(save_dict, made) == made.params

\* The parameters a restored Flow holds: the bundle's, not the factory's.
RestoredParams(save_dict, made) == save_dict.params

Failed(err, opened) == [raised |-> err, opened |-> opened, flow |-> NoFlow]

Restore(bytes) ==
    LET save_dict == DillLoad(bytes)
        made == BijectorCall(save_dict.bijector, save_dict.input_dim)
    IN  [alive |-> TRUE, input_dim |-> save_dict.input_dim, info |-> save_dict.info,
         bijector |-> save_dict.bijector, params |-> RestoredParams(save_dict, made),
         forward |-> made.forward_fun, inverse |-> made.inverse_fun,
         prior |-> Normal(save_dict.input_dim)]

Fresh(d, bijector, info) ==
    LET bij == IF bijector = NoBijector THEN DefaultBijector(d) ELSE bijector
        made == BijectorCall(bij, d)
    IN  [alive |-> TRUE, input_dim |-> d, info |-> info, bijector |-> bij,
         params |-> made.params, forward |-> made.forward_fun,
         inverse |-> made.inverse_fun, prior |-> Normal(d)]

\* The constructor's outcome: the error raised (or None), whether open()
\* was called, and the object built.
ConstructFn(input_dim, bijector, file, info, fs) ==
    IF input_dim[1] = None /\ file = None THEN Failed("ValueError", FALSE)
    ELSE IF file # None /\ (input_dim[1] # None \/ bijector # NoBijector)
    THEN Failed("ValueError", FALSE)
    ELSE IF file # None
    THEN IF fs[file] = NoFile THEN Failed("FileNotFoundError", TRUE)
         ELSE [raised |-> None, opened |-> TRUE, flow |-> Restore(fs[file])]
    ELSE IF IsPositiveInt(input_dim)
    THEN [raised |-> None, opened |-> FALSE, flow |-> Fresh(input_dim[2], bijector, info)]
    ELSE Failed("ValueError", FALSE)

(***************************************************************************)
(* The state machine.  A call is atomic except train, which runs one       *)
(* loop step at a time; no other call starts while train runs.            *)
(***************************************************************************)
Slots == {1}
FileNames == {"flow.dill"}

NoTrain ==
    [active |-> FALSE, flow |-> 0, inputs |-> <<>>, epochs |-> 0, batch_size |-> 0,
     pre |-> 0, opt_state |-> OptInit(0), losses |-> <<>>, itercount |-> 0,
     epoch |-> 0, X |-> <<>>, batch_idx |-> 0, phase |-> None, log |-> <<>>,
     cur |-> <<>>]

NoCall == [op |-> None, flow |-> 0, args |-> <<>>, raised |-> None, out |-> <<>>]
NoPending == [op |-> None]

Idle == ~tr.active

Construct(i, input_dim, bijector, file, info) ==
    /\ Idle
    /\ ~flows[i].alive
    /\ LET r == ConstructFn(input_dim, bijector, file, info, files)
       IN  /\ flows' = [flows EXCEPT ![i] = r.flow]
           /\ last' = [op |-> "construct", flow |-> i,
                       args |-> [input_dim |-> input_dim, bijector |-> bijector,
                                 file |-> file, info |-> info],
                       raised |-> r.raised, out |-> [opened |-> r.opened]]
    /\ UNCHANGED <<files, saved, tr>>

Save(i, file) ==
    /\ Idle
    /\ flows[i].alive
    /\ files' = [files EXCEPT ![file] = DillDump(SaveDict(flows[i]))]
    /\ saved' = [saved EXCEPT ![file] = flows[i]]
    /\ last' = [op |-> "save", flow |-> i, args |-> [file |-> file],
                raised |-> None, out |-> <<>>]
    /\ UNCHANGED <<flows, tr>>

ForwardFn(flow, batch) ==
    IF ~ShapeOK(flow.forward, batch) THEN [raised |-> "ShapeError", value |-> <<>>]
    ELSE [raised |-> None,
          value |-> [r \in 1..Len(batch) |-> ForwardRow(flow.forward, flow.params, batch[r])]]

InverseFn(flow, batch) ==
    IF ~ShapeOK(flow.inverse, batch) THEN [raised |-> "ShapeError", value |-> <<>>]
    ELSE [raised |-> None,
          value |-> [r \in 1..Len(batch) |-> InverseRow(flow.inverse, flow.params, batch[r]).u]]

Forward(i, batch) ==
    /\ Idle
    /\ flows[i].alive
    /\ LET r == ForwardFn(flows[i], batch)
       IN  last' = [op |-> "forward", flow |-> i, args |-> [inputs |-> batch],
                    raised |-> r.raised, out |-> r.value]
    /\ UNCHANGED <<flows, files, saved, tr>>

Inverse(i, batch) ==
    /\ Idle
    /\ flows[i].alive
    /\ LET r == InverseFn(flows[i], batch)
       IN  last' = [op |-> "inverse", flow |-> i, args |-> [inputs |-> batch],
                    raised |-> r.raised, out |-> r.value]
    /\ UNCHANGED <<flows, files, saved, tr>>

Sample(i, nsamples, seed) ==
    /\ Idle
    /\ flows[i].alive
    /\ LET r == ForwardFn(flows[i], PriorSample(flows[i].prior, nsamples, seed))
       IN  last' = [op |-> "sample", flow |-> i,
                    args |-> [nsamples |-> nsamples, seed |-> seed],
                    raised |-> r.raised, out |-> r.value]
    /\ UNCHANGED <<flows, files, saved, tr>>

LogProb(i, batch) ==
    /\ Idle
    /\ flows[i].alive
    /\ LET r == LogProbFn(flows[i], batch)
       IN  last' = [op |-> "log_prob", flow |-> i, args |-> [inputs |-> batch],
                    raised |-> r.raised, out |-> r.value]
    /\ UNCHANGED <<flows, files, saved, tr>>

Posterior(i, inputs, grid, column, mode) ==
    /\ Idle
    /\ flows[i].alive
    /\ LET r == PosteriorFn(flows[i], inputs, grid, column, mode)
       IN  last' = [op |-> "posterior", flow |-> i,
                    args |-> [inputs |-> inputs, grid |-> grid, column |-> column,
                              mode |-> mode],
                    raised |-> r.raised, out |-> r]
    /\ UNCHANGED <<flows, files, saved, tr>>

\* The object goes out of scope; there is no teardown.
Drop(i) ==
    /\ Idle
    /\ flows[i].alive
    /\ flows' = [flows EXCEPT ![i] = NoFlow]
    /\ last' = [op |-> "del", flow |-> i, args |-> <<>>, raised |-> None, out |-> <<>>]
    /\ UNCHANGED <<files, saved, tr>>

(***************************************************************************)
(* Flow.train, one loop step per action.  tr.X is the epoch's permutation  *)
(* of the row numbers of inputs.  Two histories: tr.log, the calls to      *)
(* opt_update of the whole run (the step index, the epoch, the size of     *)
(* the batch and the state returned), and tr.cur, the batches of the       *)
(* running epoch as row numbers.                                           *)
(***************************************************************************)
Perms(n) == {f \in [1..n -> 1..n] : \A a, b \in 1..n : f[a] = f[b] => a = b}

Rows(inputs, idx) == [k \in 1..Len(idx) |-> inputs[idx[k]]]

\* X[batch_idx : batch_idx + batch_size]
BatchSlice(X, batch_idx, batch_size) ==
    SubSeq(X, batch_idx + 1, Min(batch_idx + batch_size, Len(X)))

\* range(0, len(X), batch_size): the start after batch_idx.
NextBatchIdx(batch_idx, batch_size) == batch_idx + batch_size

\* Variant: the index restarts with every epoch.
StepIndexInEpoch(itercount, batch_idx) == batch_idx

\* next(itercount): the index handed to step, from the run-wide counter.
StepIndex(itercount, batch_idx) == itercount

\* step(i, opt_state, x)
Step(fun, i, opt_state, x) ==
    LET params == GetParams(opt_state)
        gradients == Grad(fun, params, x)
    IN  OptUpdate(i, gradients, opt_state)

\* Variant: the epoch's loss computed with self._params.
EpochLossStaleParams(self_params, opt_state) == self_params

\* The parameters the epoch's loss is computed with: the local params.
EpochLossParams(self_params, opt_state) == GetParams(opt_state)

\* Variant: self._params assigned at the end of every epoch.
SelfParamsSetEachEpoch(self_params, opt_state) == GetParams(opt_state)

\* self._params at the end of an epoch: only the local params is bound.
SelfParamsAfterEpoch(self_params, opt_state) == self_params

\* self._params = get_params(opt_state), after the last epoch.
SelfParamsAfterTrain(self_params, opt_state) == GetParams(opt_state)

TrainArgs == [inputs |-> tr.inputs, epochs |-> tr.epochs, batch_size |-> tr.batch_size]

Train(i, inputs, epochs, batch_size) ==
    /\ Idle
    /\ flows[i].alive
    /\ LET args == [inputs |-> inputs, epochs |-> epochs, batch_size |-> batch_size]
       IN  IF ~ShapeOK(flows[i].inverse, inputs)
           THEN /\ tr' = NoTrain
                /\ last' = [op |-> "train", flow |-> i, args |-> args,
                            raised |-> "ShapeError", out |-> <<>>]
           ELSE /\ tr' = [active |-> TRUE, flow |-> i, inputs |-> inputs,
                          epochs |-> epochs, batch_size |-> batch_size,
                          pre |-> flows[i].params,
                          opt_state |-> OptInit(flows[i].params),
                          losses |-> <<Loss(flows[i].inverse, flows[i].params, inputs)>>,
                          itercount |-> 0, epoch |-> 0, X |-> <<>>, batch_idx |-> 0,
                          phase |-> "epoch", log |-> <<>>, cur |-> <<>>]
                /\ last' = [op |-> "train", flow |-> i, args |-> args,
                            raised |-> None, out |-> <<>>]
    /\ UNCHANGED <<flows, files, saved>>

\* for epoch in range(epochs): the permutation, and range() over batches,
\* which raises ValueError for a batch_size of 0.
TrainEpoch ==
    /\ tr.active /\ tr.phase = "epoch" /\ tr.epoch < tr.epochs
    /\ IF tr.batch_size = 0
       THEN /\ tr' = NoTrain
            /\ last' = [op |-> "train", flow |-> tr.flow, args |-> TrainArgs,
                        raised |-> "ValueError", out |-> <<>>]
       ELSE /\ \E perm \in Perms(Len(tr.inputs)) :
                  tr' = [tr EXCEPT !.X = perm, !.batch_idx = 0, !.phase = "batch",
                                  !.cur = <<>>]
            /\ UNCHANGED last
    /\ UNCHANGED <<flows, files, saved, pending>>

TrainStep ==
    /\ tr.active /\ tr.phase = "batch" /\ tr.batch_idx < Len(tr.X)
    /\ LET idx == BatchSlice(tr.X, tr.batch_idx, tr.batch_size)
           i == StepIndex(tr.itercount, tr.batch_idx)
           new == Step(flows[tr.flow].inverse, i, tr.opt_state, Rows(tr.inputs, idx))
       IN  tr' = [tr EXCEPT !.opt_state = new,
                            !.itercount = tr.itercount + 1,
                            !.batch_idx = NextBatchIdx(tr.batch_idx, tr.batch_size),
                            !.log = Append(tr.log, [i |-> i, epoch |-> tr.epoch,
                                                    size |-> Len(idx), state |-> new]),
                            !.cur = Append(tr.cur, idx)]
    /\ UNCHANGED <<flows, files, saved, last, pending>>

TrainEpochEnd ==
    /\ tr.active /\ tr.phase = "batch" /\ tr.batch_idx >= Len(tr.X)
    /\ LET self == flows[tr.flow]
           params == EpochLossParams(self.params, tr.opt_state)
       IN  /\ tr' = [tr EXCEPT !.losses = Append(tr.losses,
                                                  Loss(self.inverse, params, tr.inputs)),
                               !.epoch = tr.epoch + 1, !.phase = "epoch"]
           /\ flows' = [flows EXCEPT ![tr.flow].params =
                                        SelfParamsAfterEpoch(self.params, tr.opt_state)]
    /\ UNCHANGED <<files, saved, last, pending>>

TrainReturn ==
    /\ tr.active /\ tr.phase = "epoch" /\ tr.epoch >= tr.epochs
    /\ flows' = [flows EXCEPT ![tr.flow].params =
                                 SelfParamsAfterTrain(flows[tr.flow].params, tr.opt_state)]
    /\ last' = [op |-> "train", flow |-> tr.flow, args |-> TrainArgs, raised |-> None,
                out |-> [losses |-> tr.losses, log |-> tr.log, pre |-> tr.pre]]
    /\ tr' = NoTrain
    /\ UNCHANGED <<files, saved, pending>>

\* An exception of a collaborator, or an interrupt, inside the loop: train
\* catches nothing, and the frame is dropped.
TrainInterrupt ==
    /\ tr.active
    /\ tr' = NoTrain
    /\ last' = [op |-> "train", flow |-> tr.flow, args |-> TrainArgs,
                raised |-> "Exception", out |-> <<>>]
    /\ UNCHANGED <<flows, files, saved, pending>>

(***************************************************************************)
(* Inputs.                                                                 *)
(***************************************************************************)
\* A row of width w whose entries differ: s, s+1, ... modulo 3.
Row(w, s) == [c \in 1..w |-> (s + c - 1) % 3]

BatchesOf(w, n, starts) == {[r \in 1..n |-> Row(w, f[r])] : f \in [1..n -> starts]}

Batches(w, ns, starts) == UNION {BatchesOf(w, n, starts) : n \in ns}

Grids ==
    UNION {{g \in [1..n -> DataVals] : \A k \in 1..(n - 1) : g[k] <= g[k + 1]}
             : n \in 1..MaxGrid}

InputDims ==
    {<<None, 0>>, <<"float", 2>>, <<"int", -3>>, <<"int", 0>>}
        \cup {<<"int", d>> : d \in 1..MaxDim}

Infos == {None, "meta"}

\* The Flows a program can hold: built fresh, then trained or not.
FlowStates ==
    {[Fresh(d, b, info) EXCEPT !.params = p] :
        d \in 1..MaxDim, b \in {NoBijector, UserBijector}, info \in Infos, p \in ParamVals}

(***************************************************************************)
(* Spec: a program that holds one Flow at a time (built fresh or restored  *)
(* from a file, and dropped when it goes out of scope) and calls its       *)
(* methods in any order, on a few inputs.                                  *)
(***************************************************************************)
Init ==
    /\ flows = [i \in Slots |-> NoFlow]
    /\ files = [f \in FileNames |-> NoFile]
    /\ saved = [f \in FileNames |-> NoFlow]
    /\ tr = NoTrain
    /\ last = NoCall
    /\ pending = NoPending

Dim(i) == flows[i].input_dim

DoConstruct ==
    /\ \E i \in Slots, input_dim \in {<<None, 0>>, <<"int", 0>>} \cup {<<"int", d>> : d \in 1..MaxDim},
          bijector \in {NoBijector, UserBijector}, file \in {None} \cup FileNames,
          info \in Infos :
          Construct(i, input_dim, bijector, file, info)
    /\ UNCHANGED pending

DoSave ==
    /\ \E i \in Slots, file \in FileNames : Save(i, file)
    /\ UNCHANGED pending

DoDrop ==
    /\ \E i \in Slots : Drop(i)
    /\ UNCHANGED pending

DoForward ==
    /\ \E i \in Slots : \E batch \in BatchesOf(Dim(i), 1, {0}) : Forward(i, batch)
    /\ UNCHANGED pending

DoInverse ==
    /\ \E i \in Slots : \E batch \in BatchesOf(Dim(i), 1, {0}) : Inverse(i, batch)
    /\ UNCHANGED pending

DoSample ==
    /\ \E i \in Slots : Sample(i, 1, 0)
    /\ UNCHANGED pending

DoLogProb ==
    /\ \E i \in Slots : \E batch \in BatchesOf(Dim(i), 1, {0}) : LogProb(i, batch)
    /\ UNCHANGED pending

DoPosterior ==
    /\ \E i \in Slots :
          \E inputs \in BatchesOf(Dim(i), 1, {0}), mode \in {"auto", "insert"} :
              Posterior(i, inputs, <<0, 1>>, <<"int", 0>>, mode)
    /\ UNCHANGED pending

DoTrain ==
    /\ \E i \in Slots :
          \E inputs \in BatchesOf(Dim(i), 1, {0, 1}), epochs \in {0, 1}, batch_size \in {0, 1} :
              Train(i, inputs, epochs, batch_size)
    /\ UNCHANGED pending

Next ==
    \/ DoConstruct
    \/ DoSave
    \/ DoDrop
    \/ DoForward
    \/ DoInverse
    \/ DoSample
    \/ DoLogProb
    \/ DoPosterior
    \/ DoTrain
    \/ TrainEpoch
    \/ TrainStep
    \/ TrainEpochEnd
    \/ TrainReturn
    \/ TrainInterrupt

Spec == Init /\ [][Next]_vars

(***************************************************************************)
(* SpecCall: one call, with its arguments drawn from the bounded sets      *)
(* below, on a Flow and a file system the program can have reached.        *)
(***************************************************************************)
Modes == {"auto", "insert", "replace", "nearest"}

\* The columns inside the Flow's dimension, and one that is no integer.
Columns(d) == {<<"int", c>> : c \in 0..(d - 1)} \cup {<<"float", 0>>}

\* Batches of 1..MaxRows rows that all differ, of the two widths posterior
\* accepts for dimension d and of one it does not.
PosteriorInputs(d) ==
    {[r \in 1..n |-> Row(w, s + 2 * (r - 1))] :
        n \in 1..MaxRows, w \in {d - 1, d, d + 1}, s \in {0, 2}}

\* Training data of n rows: rows that alternate between two values.
TrainData(d, n) == [r \in 1..n |-> Row(d, r % 2)]

ConstructCalls ==
    {[op |-> "construct", input_dim |-> d, bijector |-> b, file |-> f, info |-> info] :
        d \in InputDims, b \in {NoBijector, UserBijector},
        f \in {None} \cup FileNames, info \in Infos}

MethodCalls(fl) ==
    {[op |-> "posterior", inputs |-> b, grid |-> g, column |-> c, mode |-> m] :
        b \in PosteriorInputs(fl.input_dim), g \in Grids, c \in Columns(fl.input_dim), m \in Modes}
    \cup {[op |-> "log_prob", inputs |-> b] :
            b \in Batches(fl.input_dim, 1..MaxRows, DataVals)}
    \cup {[op |-> "train", inputs |-> TrainData(fl.input_dim, n), epochs |-> e,
           batch_size |-> bs] :
            n \in 0..MaxTrainRows, e \in 0..MaxEpochs, bs \in 0..MaxBatch}

InitCall ==
    /\ tr = NoTrain
    /\ last = NoCall
    /\ \/ /\ flows = [i \in Slots |-> NoFlow]
          /\ \E fl \in FlowStates \cup {NoFlow} :
                /\ saved = [f \in FileNames |-> fl]
                /\ files = [f \in FileNames |->
                              IF fl.alive THEN DillDump(SaveDict(fl)) ELSE NoFile]
          /\ pending \in ConstructCalls
       \/ /\ files = [f \in FileNames |-> NoFile]
          /\ saved = [f \in FileNames |-> NoFlow]
          /\ \E fl \in {x \in FlowStates : x.info = None} :
                /\ flows = [i \in Slots |-> fl]
                /\ pending \in MethodCalls(fl)

CallConstruct ==
    /\ pending.op = "construct"
    /\ Construct(1, pending.input_dim, pending.bijector, pending.file, pending.info)
    /\ pending' = NoPending

CallLogProb ==
    /\ pending.op = "log_prob"
    /\ LogProb(1, pending.inputs)
    /\ pending' = NoPending

CallPosterior ==
    /\ pending.op = "posterior"
    /\ Posterior(1, pending.inputs, pending.grid, pending.column, pending.mode)
    /\ pending' = NoPending

CallTrain ==
    /\ pending.op = "train"
    /\ Train(1, pending.inputs, pending.epochs, pending.batch_size)
    /\ pending' = NoPending

NextCall ==
    \/ CallConstruct
    \/ CallLogProb
    \/ CallPosterior
    \/ CallTrain
    \/ TrainEpoch
    \/ TrainStep
    \/ TrainEpochEnd
    \/ TrainReturn
    \/ TrainInterrupt

SpecCall == InitCall /\ [][NextCall]_vars

(***************************************************************************)
(* The claims.                                                             *)
(***************************************************************************)
CeilDiv(n, b) == (n + b - 1) \div b

RECURSIVE Flatten(_)
Flatten(ss) == IF Len(ss) = 0 THEN <<>> ELSE Flatten(SubSeq(ss, 1, Len(ss) - 1)) \o ss[Len(ss)]

\* The constructor arguments C1 lists as configuration errors.
BadConstructArgs(a) ==
    \/ a.input_dim[1] = None /\ a.file = None
    \/ a.file # None /\ (a.input_dim[1] # None \/ a.bijector # NoBijector)
    \/ /\ a.file = None
       /\ a.input_dim[1] # None
       /\ ~(a.input_dim[1] = "int" /\ a.input_dim[2] > 0)

\* C1: constructing a Flow raises ValueError, with no attribute set and no
\* file opened, exactly when neither input_dim nor file is given, or file
\* comes with input_dim or bijector, or input_dim (without file) is not an
\* integer greater than 0; in every other case no ValueError is raised.
C1_ConstructionValidation ==
    last.op = "construct" =>
        IF BadConstructArgs(last.args)
        THEN /\ last.raised = "ValueError"
             /\ flows[last.flow] = NoFlow
             /\ ~last.out.opened
        ELSE last.raised # "ValueError"

C1_Witness ==
    /\ last.op = "construct"
    /\ last.args.file # None
    /\ last.args.input_dim = <<"int", 0>>
    /\ last.raised = "ValueError"
    /\ files[last.args.file] # NoFile

\* The posterior arguments C2 lists as validation errors.
BadPosteriorArgs(d, a) ==
    LET ncols == Len(a.inputs[1])
    IN  \/ a.mode \notin {"auto", "insert", "replace"}
        \/ a.mode = "insert" /\ ncols # d - 1
        \/ a.mode = "replace" /\ ncols # d
        \/ ncols \notin {d, d - 1}
        \/ a.column[1] # "int"

\* C2: a posterior call with an unknown mode, a column count that does not
\* fit the mode or the dimension, or a column that is no integer raises
\* ValueError, builds no expanded batch, never calls log_prob, and leaves
\* the Flow and the files as they were.
C2_PosteriorRejects ==
    [][(pending.op = "posterior" /\ pending'.op = None
            /\ BadPosteriorArgs(flows[1].input_dim, pending))
        => /\ last'.op = "posterior"
           /\ last'.raised = "ValueError"
           /\ ~last'.out.lp_called
           /\ last'.out.expanded = <<>>
           /\ last'.out.value = <<>>
           /\ flows' = flows
           /\ files' = files]_vars

C2_Witness ==
    /\ last.op = "posterior"
    /\ last.raised = "ValueError"
    /\ last.args.mode = "replace"
    /\ Len(last.args.inputs[1]) = flows[1].input_dim - 1
    /\ last.args.column[1] = "int"

\* C3: in an accepted posterior call on n rows and a grid of G points the
\* batch given to log_prob has n*G rows of input_dim columns; row
\* (r-1)*G+g holds grid[g] at the column and row r's values, in order,
\* everywhere else; and output entry [r][g] is the normalised density of
\* that expanded row.
C3_ExpansionOrder ==
    (last.op = "posterior" /\ last.raised = None) =>
        LET fl == flows[last.flow]
            a == last.args
            n == Len(a.inputs)
            G == Len(a.grid)
            c == a.column[2] + 1
            d == fl.input_dim
            e == last.out.expanded
            pdf(r, g) == FExp(LogProbRow(fl.inverse, fl.params, e[(r - 1) * G + g]))
        IN  /\ Len(e) = n * G
            /\ \A r \in 1..n, g \in 1..G :
                  LET row == e[(r - 1) * G + g]
                  IN  /\ Len(row) = d
                      /\ row[c] = a.grid[g]
                      /\ last.out.mode = "replace" =>
                            \A j \in 1..d : j # c => row[j] = a.inputs[r][j]
                      /\ last.out.mode = "insert" =>
                            \A j \in 1..(d - 1) :
                                row[IF j < c THEN j ELSE j + 1] = a.inputs[r][j]
                      /\ last.out.value[r][g] =
                            NanToNum(FDiv(pdf(r, g),
                                          Trapz([k \in 1..G |-> pdf(r, k)], a.grid)), Zero)

C3_Witness ==
    /\ last.op = "posterior" /\ last.raised = None
    /\ last.out.mode = "insert"
    /\ last.args.column = <<"int", 1>>
    /\ Len(last.args.inputs) = 2
    /\ last.args.inputs[1] # last.args.inputs[2]
    /\ last.args.grid = <<0, 1>>

\* C4: log_prob returns prior.log_prob(latent) + log_det where that sum is
\* finite and negative infinity where it is NaN, +infinity or -infinity.
C4_NonFiniteToNegInf ==
    (last.op = "log_prob" /\ last.raised = None) =>
        \A r \in 1..Len(last.args.inputs) :
            LET fl == flows[last.flow]
                raw == RawLogProb(fl.inverse, fl.params, last.args.inputs[r])
            IN  last.out[r] = IF IsFin(raw) THEN raw ELSE NegInf

\* The state the optimizer held after j updates of the returned run.
StateAfter(out, j) == IF j = 0 THEN OptInit(out.pre) ELSE out.log[j].state

Returned == Idle /\ last.op = "train" /\ last.raised = None

\* C5: train returns epochs+1 losses: first the loss of the pre-training
\* parameters on the full inputs, then for each epoch the loss on the full
\* inputs of the parameters the optimizer holds after that epoch's last
\* batch; the last one is the loss of the parameters the Flow then holds.
C5_LossSequence ==
    Returned =>
        LET fl == flows[last.flow]
            a == last.args
            out == last.out
            lossOf(params) == Loss(fl.inverse, params, a.inputs)
        IN  /\ Len(out.losses) = a.epochs + 1
            /\ out.losses[1] = lossOf(out.pre)
            /\ \A k \in 1..a.epochs :
                  out.losses[k + 1] =
                      lossOf(GetParams(StateAfter(out, k * CeilDiv(Len(a.inputs), a.batch_size))))
            /\ out.losses[a.epochs + 1] = lossOf(fl.params)

C5_Witness ==
    /\ Returned
    /\ last.args.epochs = 2
    /\ Len(last.args.inputs) = 3
    /\ last.args.batch_size = 2
    /\ flows[last.flow].params # last.out.pre
    /\ last.out.losses[1] # last.out.losses[3]

\* The step indices of a log are 0, 1, 2, ... and each epoch has nb steps.
StepsInOrder(log, nb) ==
    \A k \in 1..Len(log) : log[k].i = k - 1 /\ log[k].epoch = (k - 1) \div nb

\* C6: with batch_size >= 1 every epoch cuts its permutation of the N rows
\* into ceil(N/B) contiguous batches, all of size B but a possibly shorter
\* last one, holding every row once; each batch gets one update; the step
\* index counts 0, 1, 2, ... through the whole run, so a run makes
\* epochs*ceil(N/B) updates and its last index is epochs*ceil(N/B)-1.
C6_BatchesAndSteps ==
    /\ (tr.active /\ tr.batch_size >= 1) =>
          LET N == Len(tr.inputs)
              B == tr.batch_size
              nb == CeilDiv(N, B)
              done == tr.phase = "epoch" \/ tr.batch_idx >= N
          IN  /\ StepsInOrder(tr.log, nb)
              /\ tr.phase = "batch" =>
                    /\ tr.X \in Perms(N)
                    /\ Len(tr.log) = tr.epoch * nb + Len(tr.cur)
                    /\ Flatten(tr.cur) = SubSeq(tr.X, 1, Min(tr.batch_idx, N))
                    /\ \A k \in 1..Len(tr.cur) :
                          Len(tr.cur[k]) = IF k < nb THEN B ELSE N - (nb - 1) * B
              /\ tr.phase = "epoch" => Len(tr.log) = tr.epoch * nb
              /\ (done /\ tr.epoch + (IF tr.phase = "batch" THEN 1 ELSE 0) >= 1) =>
                    /\ Len(tr.cur) = nb
                    /\ \A row \in 1..N :
                          Cardinality({k \in 1..N : Flatten(tr.cur)[k] = row}) = 1
    /\ (Returned /\ last.args.batch_size >= 1) =>
          LET total == last.args.epochs * CeilDiv(Len(last.args.inputs), last.args.batch_size)
          IN  /\ Len(last.out.log) = total
              /\ StepsInOrder(last.out.log, CeilDiv(Len(last.args.inputs), last.args.batch_size))
              /\ total > 0 => last.out.log[total].i = total - 1

C6_Witness ==
    /\ tr.active /\ tr.phase = "batch"
    /\ Len(tr.inputs) = 3 /\ tr.batch_size = 2
    /\ tr.epoch = 1
    /\ Len(tr.cur) = 2
    /\ Len(tr.cur[2]) = 1
    /\ tr.log[4].i = 3

\* C7: while a Flow lives, input_dim, info, the bijector, its closures and
\* the prior never change; params change only in the step in which train
\* returns, to the parameters of the final optimizer state; they hold their
\* pre-training value while train runs, and after a train call that fails.
C7_FrameAndParams ==
    [][\A i \in Slots :
        (flows[i].alive /\ flows'[i].alive) =>
            /\ flows'[i].input_dim = flows[i].input_dim
            /\ flows'[i].info = flows[i].info
            /\ flows'[i].bijector = flows[i].bijector
            /\ flows'[i].forward = flows[i].forward
            /\ flows'[i].inverse = flows[i].inverse
            /\ flows'[i].prior = flows[i].prior
            /\ flows'[i].params # flows[i].params =>
                  /\ tr.active /\ tr.flow = i /\ ~tr'.active
                  /\ last'.op = "train" /\ last'.raised = None
            /\ (tr.active /\ tr.flow = i) =>
                  /\ flows[i].params = tr.pre
                  /\ tr'.active => flows'[i].params = tr.pre
                  /\ (~tr'.active /\ last'.raised # None) => flows'[i].params = tr.pre
                  /\ (~tr'.active /\ last'.raised = None) =>
                        flows'[i].params = GetParams(tr.opt_state)]_vars

C7_Witness ==
    /\ Returned
    /\ last.args.epochs = 1
    /\ flows[last.flow].params # last.out.pre

\* C8: a Flow restored from a file has the input_dim, info, bijector and
\* params the saving Flow had when it wrote the file, a prior of dimension
\* input_dim, and the same log_prob on every batch.
C8_SaveRestore ==
    (last.op = "construct" /\ last.args.file # None /\ last.raised = None) =>
        LET new == flows[last.flow]
            old == saved[last.args.file]
        IN  /\ old.alive /\ new.alive
            /\ new.input_dim = old.input_dim
            /\ new.info = old.info
            /\ new.bijector = old.bijector
            /\ new.params = old.params
            /\ new.prior = Normal(new.input_dim)
            /\ \A batch \in Batches(new.input_dim, 1..MaxRows, DataVals) :
                  LogProbFn(new, batch) = LogProbFn(old, batch)

C8_Witness ==
    /\ last.op = "construct" /\ last.args.file # None /\ last.raised = None
    /\ flows[last.flow].params # InitParams(flows[last.flow].bijector)
    /\ flows[last.flow].info = "meta"

\* A row of densities with no NaN and no infinity.
NoNonFinite(row) == \A k \in 1..Len(row) : row[k][1] \notin {"nan", "inf", "ninf"}

\* A row of rationals whose trapezoid integral over the grid is exactly 1.
IntegratesToOne(row, grid) ==
    /\ \A k \in 1..Len(row) : IsFin(row[k])
    /\ Trapz(row, grid) = One

Area(r) ==
    LET fl == flows[last.flow]
        G == Len(last.args.grid)
        pdfs == [k \in 1..G |->
                   FExp(LogProbRow(fl.inverse, fl.params, last.out.expanded[(r - 1) * G + k]))]
    IN  Trapz(pdfs, last.args.grid)

C10_AutoEquivalence ==
    (last.op = "posterior" /\ last.args.mode = "auto") =>
        LET fl == flows[last.flow]
            a == last.args
            d == fl.input_dim
            ncols == Len(a.inputs[1])
            as(mode) == PosteriorFn(fl, a.inputs, a.grid, a.column, mode)
        IN  /\ ncols = d =>
                  /\ last.out.raised = as("replace").raised
                  /\ last.out.value = as("replace").value
            /\ ncols = d - 1 =>
                  /\ last.out.raised = as("insert").raised
                  /\ last.out.value = as("insert").value
            /\ last.out.lp_called =>
                  \/ last.out.mode = "insert" /\ ncols = d - 1
                  \/ last.out.mode = "replace" /\ ncols = d

C10_Witness ==
    /\ last.op = "posterior" /\ last.args.mode = "auto" /\ last.raised = None
    /\ Len(last.args.inputs[1]) = flows[last.flow].input_dim - 1
    /\ Len(last.args.inputs[1]) = 1
    /\ last.out.mode = "insert"

====
